---- MODULE Spec2Model ----
\* A model of syn-assert: the CheckResult outcome type (src/src/utils.rs), the
\* HasFn matcher over the three node shapes and the AssertFn builder
\* (src/src/function.rs).
\*
\* Text is modelled as a sequence of characters (one-character strings); the
\* fixed pieces of a format string are single tokens.  A message is such a
\* sequence, a failure list is a sequence of messages.
EXTENDS Naturals, Sequences, FiniteSets, TLC

VARIABLES af, pc, call, result

vars == <<af, pc, call, result>>

\* ------------------------------------------------------------------ bounds
MaxVecLen == 2
MaxItemAttrs == 2
MaxExpAttrs == 2
MaxFailures == 2
MaxResults == 2

SeqsUpTo(S, n) == UNION {[1..k -> S] : k \in 0..n}

\* ------------------------------------------------------------- text helpers
RECURSIVE Concat(_)
Concat(ss) == IF ss = <<>> THEN <<>> ELSE Head(ss) \o Concat(Tail(ss))

RECURSIVE Join(_, _)
Join(ss, sep) ==
    IF ss = <<>> THEN <<>>
    ELSE IF Tail(ss) = <<>> THEN Head(ss)
    ELSE Head(ss) \o sep \o Join(Tail(ss), sep)

\* text `s` occurs in text `m` as a contiguous piece
Occurs(s, m) ==
    \E i \in 0..Len(m) :
        /\ i + Len(s) <= Len(m)
        /\ \A k \in 1..Len(s) : m[i + k] = s[k]

\* {:?} of a str / String: double quotes around the text, with the quote and
\* the backslash escaped
EscapeChar(c) == IF c \in {"\"", "\\"} THEN <<"\\", c>> ELSE <<c>>

DebugStr(s) ==
    <<"\"">> \o Concat([i \in 1..Len(s) |-> EscapeChar(s[i])]) \o <<"\"">>

\* {:?} of a proc_macro2 Ident
DebugIdent(id) == <<"Ident(">> \o id \o <<")">>

\* {:?} of a syn Visibility (a variant name)
DebugVis(v) == <<"Visibility::", v>>

\* TokenStream::to_string: the tokens separated by single spaces
to_string(ts) == Join([i \in 1..Len(ts) |-> <<ts[i]>>], <<" ">>)

\* -------------------------------------------------------------- CheckResult
Success == [tag |-> "Success", failures |-> <<>>]

Failure(v) == [tag |-> "Failure", failures |-> v]

\* impl From<CheckResult> for Vec<String>
IntoVec(r) == IF r.tag = "Success" THEN <<>> ELSE r.failures

\* a conversion that keeps an empty failure list as a failure
FromVecMut(failures) == Failure(failures)

\* impl From<Vec<String>> for CheckResult

FromVec(failures) == IF failures = <<>> THEN Success ELSE Failure(failures)

\* a comparison whose message leaves out the actual value
compareMut(equal, expectedDebug, actualDebug) ==
    IF equal THEN Success
    ELSE Failure(<< <<"Expected '">> \o expectedDebug \o <<"', got '">> \o <<"'">> >>)

\* CheckResult::compare; `equal` is actual == expected under the PartialEq of
\* the two types, the other two arguments are their {:?} renderings

compare(equal, expectedDebug, actualDebug) ==
    IF equal THEN Success
    ELSE Failure(<< <<"Expected '">> \o expectedDebug \o <<"', got '">>
                    \o actualDebug \o <<"'">> >>)

\* the filter_map of CheckResult::contains, in the order of `expected`
RECURSIVE contains_failures(_, _)
contains_failures(actual, expected) ==
    IF expected = <<>> THEN <<>>
    ELSE (IF Head(expected) \in actual
            THEN <<>>
            ELSE << <<"Missing '">> \o DebugStr(Head(expected)) \o <<"'">> >>)
         \o contains_failures(actual, Tail(expected))

\* a containment check that reports an absent entry once, however often the
\* expected list repeats it
containsMut(actual, expected) ==
    LET first == {i \in DOMAIN expected :
                    \A j \in DOMAIN expected : expected[j] = expected[i] => i <= j}
        once == [i \in DOMAIN expected |->
                    IF i \in first THEN <<expected[i]>> ELSE <<>>]
    IN  FromVec(contains_failures(actual, Concat(once)))

\* CheckResult::contains
contains(actual, expected) == FromVec(contains_failures(actual, expected))

\* the filter_map + flatten of CheckResult::any, in iteration order
RECURSIVE any_failures(_)
any_failures(results) ==
    IF results = <<>> THEN <<>>
    ELSE (IF Head(results).tag = "Success" THEN <<>> ELSE Head(results).failures)
         \o any_failures(Tail(results))

\* a reduction that keeps only the first failing outcome's messages
anyMut(results) ==
    LET failing == SelectSeq(results, LAMBDA r : r.tag # "Success")
    IN  FromVec(IF failing = <<>> THEN <<>> ELSE Head(failing).failures)

\* CheckResult::any
any(results) == FromVec(any_failures(results))

\* a missing-field failure that does not name the field
missingMut(name) == Failure(<< <<"Missing ">> >>)

\* CheckResult::missing
missing(name) == Failure(<< <<"Missing ">> \o name >>)

\* a combination that puts the other outcome's messages first
andMut(self, other) == FromVec(IntoVec(other) \o IntoVec(self))

\* CheckResult::and
and(self, other) == FromVec(IntoVec(self) \o IntoVec(other))

as_bool(r) == r.tag = "Success"

\* impl Add for CheckResult
add(self, other) == and(self, other)

\* ------------------------------------------------------------ syntax nodes
\* identifiers and expected names (a name is any &str: one holds a quote)
main == <<"m", "a", "i", "n">>

other == <<"o", "t", "h", "e", "r">>

Idents == {main, other}

ExpNames == Idents \cup {<<"m", "\"">>}

Visibilities == {"Inherited", "Public"}

\* bodies as token streams
Blocks == {<<"{", "}">>, <<"{", "x", "}">>}

\* attribute paths (sequences of segments) and expected attribute strings
my_attr == << <<"m", "y">> >>

my_other_attr == << <<"c">>, <<"o">> >>

Paths == {my_attr, my_other_attr}

ExpAttrs == {<<"m", "y">>, <<"c", ":", ":", "o">>}

AttrLists == SeqsUpTo(Paths, MaxItemAttrs)

ExpAttrLists == SeqsUpTo(ExpAttrs, MaxExpAttrs)

\* syn::ItemFn, reduced to the four fields the matcher reads
ItemFns ==
    {[shape |-> "ItemFn", ident |-> i, vis |-> v, attrs |-> a, block |-> b] :
        i \in Idents, v \in Visibilities, a \in AttrLists, b \in Blocks}

\* syn::Item: the Fn variant wraps a function item, any other variant has none
ItemOf(f) == [shape |-> "Item", variant |-> "Fn", func |-> <<f>>]

NotFn == [shape |-> "Item", variant |-> "Struct", func |-> <<>>]

\* the elements sequences are built from
VecElems ==
    {NotFn,
     ItemOf([shape |-> "ItemFn", ident |-> main, vis |-> "Inherited",
             attrs |-> <<>>, block |-> <<"{", "}">>]),
     ItemOf([shape |-> "ItemFn", ident |-> other, vis |-> "Public",
             attrs |-> <<my_attr>>, block |-> <<"{", "x", "}">>]),
     ItemOf([shape |-> "ItemFn", ident |-> main, vis |-> "Public",
             attrs |-> <<my_attr, my_other_attr>>, block |-> <<"{", "x", "}">>])}

VecOf(items) == [shape |-> "Vec", items |-> items]

Vecs == {VecOf(s) : s \in SeqsUpTo(VecElems, MaxVecLen)}

\* -------------------------------------------------------------------- HasFn
\* the ident of a path segment list joined by "::"
PathString(path) == Join(path, <<":", ":">>)

\* impl HasFn for ItemFn
ItemFn_has_name(self, name) ==
    compare(self.ident = name, DebugStr(name), DebugIdent(self.ident))

ItemFn_has_vis(self, vis) ==
    compare(self.vis = vis, DebugVis(vis), DebugVis(self.vis))

ItemFn_has_attrs(self, attrs) ==
    LET self_attrs == {PathString(self.attrs[i]) : i \in DOMAIN self.attrs}
    IN  contains(self_attrs, attrs)

ItemFn_has_block(self, block) ==
    compare(to_string(self.block) = to_string(block),
            DebugStr(to_string(block)), DebugStr(to_string(self.block)))

\* the field names the macros are instantiated with (stringify!($v))
f_name == <<"n", "a", "m", "e">>

f_vis == <<"v", "i", "s">>

f_attrs == <<"a", "t", "t", "r", "s">>

f_block == <<"b", "l", "o", "c", "k">>

\* func.[<has_ $v>]($v): the function item's method for field v
ItemFn_has(v, self, arg) ==
    CASE v = f_name -> ItemFn_has_name(self, arg)
      [] v = f_vis -> ItemFn_has_vis(self, arg)
      [] v = f_attrs -> ItemFn_has_attrs(self, arg)
      [] v = f_block -> ItemFn_has_block(self, arg)

\* hasfn_item!: delegate to the function variant, otherwise report missing
hasfn_item(self, v, arg) ==
    IF self.variant = "Fn" THEN ItemFn_has(v, self.func[1], arg) ELSE missing(v)

Item_has_name(self, name) == hasfn_item(self, f_name, name)

Item_has_vis(self, vis) == hasfn_item(self, f_vis, vis)

Item_has_attrs(self, attrs) == hasfn_item(self, f_attrs, attrs)

\* a body check that never delegates to the function variant
Item_has_blockMut(self, block) == missing(f_block)

Item_has_block(self, block) == hasfn_item(self, f_block, block)

\* f.[<has_ $v>](&$v): an element's method for field v
Item_has(v, self, arg) ==
    CASE v = f_name -> Item_has_name(self, arg)
      [] v = f_vis -> Item_has_vis(self, arg)
      [] v = f_attrs -> Item_has_attrs(self, arg)
      [] v = f_block -> Item_has_block(self, arg)

\* hasfn_vec!: reduce the elements' outcomes with CheckResult::any
hasfn_vec(self, v, arg) ==
    any([i \in 1..Len(self.items) |-> Item_has(v, self.items[i], arg)])

Vec_has_name(self, name) == hasfn_vec(self, f_name, name)

Vec_has_vis(self, vis) == hasfn_vec(self, f_vis, vis)

Vec_has_attrs(self, attrs) == hasfn_vec(self, f_attrs, attrs)

Vec_has_block(self, block) == hasfn_vec(self, f_block, block)

\* the trait methods, dispatched on the shape of the receiver
has_name(t, name) ==
    CASE t.shape = "ItemFn" -> ItemFn_has_name(t, name)
      [] t.shape = "Item" -> Item_has_name(t, name)
      [] t.shape = "Vec" -> Vec_has_name(t, name)

has_vis(t, vis) ==
    CASE t.shape = "ItemFn" -> ItemFn_has_vis(t, vis)
      [] t.shape = "Item" -> Item_has_vis(t, vis)
      [] t.shape = "Vec" -> Vec_has_vis(t, vis)

has_attrs(t, attrs) ==
    CASE t.shape = "ItemFn" -> ItemFn_has_attrs(t, attrs)
      [] t.shape = "Item" -> Item_has_attrs(t, attrs)
      [] t.shape = "Vec" -> Vec_has_attrs(t, attrs)

has_block(t, block) ==
    CASE t.shape = "ItemFn" -> ItemFn_has_block(t, block)
      [] t.shape = "Item" -> Item_has_block(t, block)
      [] t.shape = "Vec" -> Vec_has_block(t, block)

\* ----------------------------------------------------------------- AssertFn
\* an Option is a sequence of at most one value
None == <<>>

Some(x) == <<x>>

AssertFn_new(t) ==
    [t |-> t, name |-> None, vis |-> None, attrs |-> <<>>, block |-> None]

\* $s.t.[<has_ $t>](&$t): the target's method for field v
has(v, t, arg) ==
    CASE v = f_name -> has_name(t, arg)
      [] v = f_vis -> has_vis(t, arg)
      [] v = f_block -> has_block(t, arg)

\* check_option!: run the field's check when the expectation is set
check_option(s, opt, v) ==
    IF opt # None THEN has(v, s.t, opt[1]) ELSE Success

\* a finalization that stops at a failing name check
checkMut(s) ==
    LET n == check_option(s, s.name, f_name)
    IN  IF ~as_bool(n) THEN n
        ELSE add(add(add(n, check_option(s, s.vis, f_vis)),
                     check_option(s, s.block, f_block)),
                 has_attrs(s.t, s.attrs))

\* impl Check for AssertFn
check(s) ==
    add(add(add(check_option(s, s.name, f_name),
                check_option(s, s.vis, f_vis)),
            check_option(s, s.block, f_block)),
        has_attrs(s.t, s.attrs))

\* ------------------------------------------------- the builder's life cycle
Init ==
    /\ \/ af = Some(AssertFn_new(NotFn))
       \/ \E f \in ItemFns : af = Some(AssertFn_new(ItemOf(f)))
       \/ \E t \in ItemFns : af = Some(AssertFn_new(t))
       \/ \E t \in Vecs : af = Some(AssertFn_new(t))
    /\ pc = "new"
    /\ call = None
    /\ result = None

Building == pc \in {"new", "build"}

with_name(name) ==
    /\ Building
    /\ af' = Some([af[1] EXCEPT !.name = Some(name)])
    /\ pc' = "build"
    /\ UNCHANGED <<call, result>>

with_vis(vis) ==
    /\ Building
    /\ af' = Some([af[1] EXCEPT !.vis = Some(vis)])
    /\ pc' = "build"
    /\ UNCHANGED <<call, result>>

with_attrs(attrs) ==
    /\ Building
    /\ af' = Some([af[1] EXCEPT !.attrs = attrs])
    /\ pc' = "build"
    /\ UNCHANGED <<call, result>>

with_block(block) ==
    /\ Building
    /\ af' = Some([af[1] EXCEPT !.block = Some(block)])
    /\ pc' = "build"
    /\ UNCHANGED <<call, result>>

Check ==
    /\ Building
    /\ result' = Some(check(af[1]))
    /\ pc' = "done"
    /\ UNCHANGED <<af, call>>

\* a trait method called on the target itself, instead of using the builder
CallHasName(name) ==
    /\ pc = "new"
    /\ call' = Some([op |-> "has_name", arg |-> name])
    /\ result' = Some(has_name(af[1].t, name))
    /\ pc' = "called"
    /\ UNCHANGED af

CallHasVis(vis) ==
    /\ pc = "new"
    /\ call' = Some([op |-> "has_vis", arg |-> vis])
    /\ result' = Some(has_vis(af[1].t, vis))
    /\ pc' = "called"
    /\ UNCHANGED af

CallHasAttrs(attrs) ==
    /\ pc = "new"
    /\ call' = Some([op |-> "has_attrs", arg |-> attrs])
    /\ result' = Some(has_attrs(af[1].t, attrs))
    /\ pc' = "called"
    /\ UNCHANGED af

CallHasBlock(block) ==
    /\ pc = "new"
    /\ call' = Some([op |-> "has_block", arg |-> block])
    /\ result' = Some(has_block(af[1].t, block))
    /\ pc' = "called"
    /\ UNCHANGED af

Next ==
    \/ \E name \in ExpNames : with_name(name)
    \/ \E vis \in Visibilities : with_vis(vis)
    \/ \E attrs \in ExpAttrLists : with_attrs(attrs)
    \/ \E block \in Blocks : with_block(block)
    \/ Check
    \/ \E name \in ExpNames : CallHasName(name)
    \/ \E vis \in Visibilities : CallHasVis(vis)
    \/ \E attrs \in ExpAttrLists : CallHasAttrs(attrs)
    \/ \E block \in Blocks : CallHasBlock(block)

Spec == Init /\ [][Next]_vars

\* ------------------------------------- the outcome primitives called directly
\* messages and outcomes handed to the primitives; CheckResults adds the
\* variant value Failure(vec![]), which the enum allows a caller to build
Messages == {<<"Missing ", "x">>, <<"e">>}

Outcomes ==
    {Success} \cup {Failure(v) : v \in SeqsUpTo(Messages, MaxFailures) \ {<<>>}}

CheckResults == Outcomes \cup {Failure(<<>>)}

FieldNames == {f_name, f_vis, f_attrs, f_block}

Options(S) == {None} \cup {Some(x) : x \in S}

CheckInputs ==
    {[t |-> t, name |-> n, vis |-> v, attrs |-> a, block |-> b] :
        t \in VecElems \cup Vecs, n \in Options(ExpNames),
        v \in Options(Visibilities), a \in ExpAttrLists, b \in Options(Blocks)}

Input(op, arg) ==
    /\ af = None
    /\ pc = "input"
    /\ call = Some([op |-> op, arg |-> arg])
    /\ result = None

CallInit ==
    \/ \E a, b \in CheckResults : Input("and", <<a, b>>)
    \/ \E a, b, c \in CheckResults : Input("add", <<a, b, c>>)
    \/ \E rs \in SeqsUpTo(CheckResults, MaxResults) : Input("any", rs)
    \/ \E n \in ExpNames, i \in Idents : Input("compare", <<n, i>>)
    \/ \E A \in SUBSET ExpAttrs, E \in ExpAttrLists : Input("contains", <<A, E>>)
    \/ \E f \in FieldNames : Input("missing", f)
    \/ \E s \in CheckInputs : Input("check", s)
    \/ \E v \in Vecs, n \in ExpNames : Input("vec_has_name", <<v, n>>)
    \/ \E v \in Vecs, x \in Visibilities : Input("vec_has_vis", <<v, x>>)
    \/ \E v \in Vecs, E \in ExpAttrLists : Input("vec_has_attrs", <<v, E>>)
    \/ \E v \in Vecs, b \in Blocks : Input("vec_has_block", <<v, b>>)

Pending(op) == pc = "input" /\ call[1].op = op

Return(r) ==
    /\ result' = Some(r)
    /\ pc' = "returned"
    /\ UNCHANGED <<af, call>>

ApplyAnd == Pending("and") /\ Return(and(call[1].arg[1], call[1].arg[2]))

\* the expression a + b + c
ApplyAdd ==
    /\ Pending("add")
    /\ Return(add(add(call[1].arg[1], call[1].arg[2]), call[1].arg[3]))

ApplyAny == Pending("any") /\ Return(any(call[1].arg))

ApplyCompare ==
    /\ Pending("compare")
    /\ Return(compare(call[1].arg[2] = call[1].arg[1], DebugStr(call[1].arg[1]),
                      DebugIdent(call[1].arg[2])))

ApplyContains ==
    Pending("contains") /\ Return(contains(call[1].arg[1], call[1].arg[2]))

ApplyMissing == Pending("missing") /\ Return(missing(call[1].arg))

ApplyCheck == Pending("check") /\ Return(check(call[1].arg))

ApplyVecHasName ==
    Pending("vec_has_name") /\ Return(Vec_has_name(call[1].arg[1], call[1].arg[2]))

ApplyVecHasVis ==
    Pending("vec_has_vis") /\ Return(Vec_has_vis(call[1].arg[1], call[1].arg[2]))

ApplyVecHasAttrs ==
    Pending("vec_has_attrs") /\ Return(Vec_has_attrs(call[1].arg[1], call[1].arg[2]))

ApplyVecHasBlock ==
    Pending("vec_has_block") /\ Return(Vec_has_block(call[1].arg[1], call[1].arg[2]))

CallNext ==
    \/ ApplyAnd
    \/ ApplyAdd
    \/ ApplyAny
    \/ ApplyCompare
    \/ ApplyContains
    \/ ApplyMissing
    \/ ApplyCheck
    \/ ApplyVecHasName
    \/ ApplyVecHasVis
    \/ ApplyVecHasAttrs
    \/ ApplyVecHasBlock

CallSpec == CallInit /\ [][CallNext]_vars

\* ------------------------------------------------------------ the properties
Target == af[1].t

Res == result[1]

Arg == call[1].arg

Called(op) == pc = "called" /\ call[1].op = op

Returned(op) == pc = "returned" /\ call[1].op = op

Range(f) == {f[i] : i \in DOMAIN f}

IsFnItem(t) == t.shape = "Item" /\ t.variant = "Fn"

\* the four "Missing <field>" messages
MissingName == <<"Missing ", "n", "a", "m", "e">>

MissingVis == <<"Missing ", "v", "i", "s">>

MissingAttrs == <<"Missing ", "a", "t", "t", "r", "s">>

MissingBlock == <<"Missing ", "b", "l", "o", "c", "k">>

\* the field a call is about
FieldOf(op) ==
    CASE op \in {"has_name", "vec_has_name"} -> f_name
      [] op \in {"has_vis", "vec_has_vis"} -> f_vis
      [] op \in {"has_attrs", "vec_has_attrs"} -> f_attrs
      [] op \in {"has_block", "vec_has_block"} -> f_block

\* C1: a field-check on a sequence of nodes succeeds if and only if at least
\* one element's corresponding check succeeds (so an empty sequence fails and
\* a sequence with one matching and one non-matching element succeeds).
C1_SucceedsIffSomeElement ==
    (pc = "called" /\ Target.shape = "Vec") =>
        (as_bool(Res) <=>
            \E i \in DOMAIN Target.items :
                as_bool(Item_has(FieldOf(call[1].op), Target.items[i], Arg)))

\* C2: finalizing a builder on which no expectation was set returns Success,
\* whatever the target node is.
C2_UnsetAlwaysSucceeds ==
    (pc = "done" /\ af[1] = AssertFn_new(Target)) => Res = Success

\* the attribute set A of a function item and the positions of the expected
\* list E whose entry is absent from A
AttrSet(f) == {PathString(f.attrs[i]) : i \in DOMAIN f.attrs}

AbsentAt(E, A) == {i \in DOMAIN E : E[i] \notin A}

\* C3 (as stated): has_attrs on a function item succeeds iff every element of
\* E is in A, and the number of messages equals |E \ A|, also when E repeats
\* entries.
C3_CountIsSetDifference ==
    (Called("has_attrs") /\ Target.shape = "ItemFn") =>
        /\ as_bool(Res) <=> Range(Arg) \subseteq AttrSet(Target)
        /\ Len(IntoVec(Res)) = Cardinality(Range(Arg) \ AttrSet(Target))

\* C3 (amended): has_attrs on a function item succeeds iff every element of E
\* is in A; it produces one "Missing" message per entry of E absent from A,
\* repeated entries counted each time, which is |E \ A| when E repeats no
\* entry; each message is about an entry of E that is absent from A.
C3_OneMessagePerAbsentEntry ==
    (Called("has_attrs") /\ Target.shape = "ItemFn") =>
        LET A == AttrSet(Target)
            E == Arg
            msgs == IntoVec(Res)
        IN  /\ as_bool(Res) <=> Range(E) \subseteq A
            /\ Len(msgs) = Cardinality(AbsentAt(E, A))
            /\ (Cardinality(Range(E)) = Len(E)) =>
                    Len(msgs) = Cardinality(Range(E) \ A)
            /\ \A k \in DOMAIN msgs :
                    \E e \in Range(E) \ A :
                        msgs[k] = <<"Missing '">> \o DebugStr(e) \o <<"'">>
            /\ \A e \in Range(E) \ A :
                    \E k \in DOMAIN msgs : Occurs(DebugStr(e), msgs[k])

C3_Witness ==
    /\ Called("has_attrs")
    /\ Target.shape = "ItemFn"
    /\ Target.attrs = <<my_attr, my_attr>>
    /\ Arg = <<PathString(my_other_attr), PathString(my_other_attr)>>
    /\ Len(IntoVec(Res)) = Len(Arg)

IfSet(opt, msg) == IF opt # None THEN <<msg>> ELSE <<>>

\* C4: on a generic item that is not a function every field-check fails with
\* the message "Missing <field>" whatever the expected value, and a finalized
\* assertion holds one such message per field checked: name, visibility and
\* body when set, and attributes, which finalization always checks.
C4_NonFunctionReportsMissing ==
    (Target = NotFn) =>
        /\ Called("has_name") => Res = Failure(<<MissingName>>)
        /\ Called("has_vis") => Res = Failure(<<MissingVis>>)
        /\ Called("has_attrs") => Res = Failure(<<MissingAttrs>>)
        /\ Called("has_block") => Res = Failure(<<MissingBlock>>)
        /\ pc = "done" =>
                /\ Res.tag = "Failure"
                /\ Res.failures =
                       IfSet(af[1].name, MissingName)
                    \o IfSet(af[1].vis, MissingVis)
                    \o IfSet(af[1].block, MissingBlock)
                    \o <<MissingAttrs>>

C4_Witness ==
    /\ pc = "done"
    /\ Target = NotFn
    /\ af[1].name # None
    /\ af[1].block # None
    /\ af[1].vis = None
    /\ Len(Res.failures) = Cardinality({"name", "block", "attrs"})

\* the identifiers a node carries
Identifiers(t) ==
    CASE t.shape = "ItemFn" -> {t.ident}
      [] t.shape = "Item" -> {t.func[i].ident : i \in DOMAIN t.func}
      [] t.shape = "Vec" ->
            UNION {{t.items[i].func[j].ident : j \in DOMAIN t.items[i].func} :
                        i \in DOMAIN t.items}

Escaped(s) == \E i \in DOMAIN s : s[i] \in {"\"", "\\"}

C6_AssociativeWithIdentity ==
    /\ Returned("add") =>
            /\ Res = add(Arg[1], add(Arg[2], Arg[3]))
            /\ IntoVec(Res) = IntoVec(Arg[1]) \o IntoVec(Arg[2]) \o IntoVec(Arg[3])
            /\ as_bool(Res) <=> \A i \in DOMAIN Arg : IntoVec(Arg[i]) = <<>>
    /\ Returned("and") =>
            /\ IntoVec(Res) = IntoVec(Arg[1]) \o IntoVec(Arg[2])
            /\ (Arg[1] = Success /\ Arg[2] \in Outcomes) => Res = Arg[2]
            /\ (Arg[2] = Success /\ Arg[1] \in Outcomes) => Res = Arg[1]
            /\ (Arg[1] = Success /\ Arg[2] = Failure(<<>>)) => Res = Success

C6_Witness ==
    /\ Returned("add")
    /\ \A i \in DOMAIN Arg : Arg[i].tag = "Failure" /\ Arg[i].failures # <<>>
    /\ Arg[1] # Arg[2]
    /\ Arg[2] # Arg[3]
    /\ Len(Res.failures) = Len(Arg[1].failures) + Len(Arg[2].failures)
                            + Len(Arg[3].failures)

\* the messages the check of field v contributes when its expectation is opt
FieldMsgs(t, opt, v) ==
    Concat([i \in DOMAIN opt |-> IntoVec(has(v, t, opt[i]))])

\* C7: the messages of a finalized assertion are exactly those of the name,
\* visibility and body checks that were set and of the attribute check, in
\* that order; an unset field contributes none, and the result is Success iff
\* every check that was run succeeded.
C7_NoFailureSwallowed ==
    pc = "done" =>
        LET s == af[1]
            ran == {has_name(s.t, s.name[i]) : i \in DOMAIN s.name}
                     \cup {has_vis(s.t, s.vis[i]) : i \in DOMAIN s.vis}
                     \cup {has_block(s.t, s.block[i]) : i \in DOMAIN s.block}
                     \cup {has_attrs(s.t, s.attrs)}
        IN  /\ IntoVec(Res) =
                   FieldMsgs(s.t, s.name, f_name)
                \o FieldMsgs(s.t, s.vis, f_vis)
                \o FieldMsgs(s.t, s.block, f_block)
                \o IntoVec(has_attrs(s.t, s.attrs))
            /\ Res = Success <=> \A r \in ran : as_bool(r)
            /\ Res.tag = "Failure" => Res.failures # <<>>

C7_Witness ==
    /\ pc = "done"
    /\ Target.shape = "ItemFn"
    /\ af[1].name # None
    /\ af[1].vis = None
    /\ af[1].block # None
    /\ ~as_bool(has_name(Target, af[1].name[1]))
    /\ ~as_bool(has_block(Target, af[1].block[1]))
    /\ Len(af[1].attrs) = Len(IntoVec(has_attrs(Target, af[1].attrs)))
    /\ af[1].attrs # <<>>
    /\ Len(Res.failures) = Len(af[1].attrs) + Cardinality({"name", "block"})

\* C8: on a generic item that wraps a function item f, every field-check and
\* every finalized assertion returns the outcome the same check returns on f.
C8_FnItemDelegates ==
    IsFnItem(Target) =>
        /\ pc = "called" => Res = ItemFn_has(FieldOf(call[1].op), Target.func[1], Arg)
        /\ pc = "done" => Res = check([af[1] EXCEPT !.t = Target.func[1]])

C8_Witness ==
    /\ pc = "done"
    /\ IsFnItem(Target)
    /\ af[1].name # None
    /\ af[1].block # None
    /\ Res.tag = "Failure"
    /\ Res = check([af[1] EXCEPT !.t = Target.func[1]])

\* C9: every outcome a primitive or a finalization returns is Success, or a
\* Failure with at least one message, so as_bool is true iff there is no
\* message; this for any argument, the value Failure(vec![]) included.
C9_WellFormed ==
    pc = "returned" =>
        /\ Res.tag \in {"Success", "Failure"}
        /\ Res.tag = "Failure" => Res.failures # <<>>
        /\ as_bool(Res) <=> IntoVec(Res) = <<>>

C9_Witness ==
    /\ Returned("any")
    /\ Arg # <<>>
    /\ \A i \in DOMAIN Arg : Arg[i] = Failure(<<>>)
    /\ Res = Success

\* the messages of the failing outcomes of rs, in order
FailingMsgs(rs) ==
    Concat([i \in DOMAIN rs |-> IF as_bool(rs[i]) THEN <<>> ELSE rs[i].failures])

\* C10: CheckResult::any succeeds only if every outcome of the iterable
\* succeeded (also for none), and otherwise fails with the messages of the
\* failing outcomes concatenated in iteration order; a field-check on a
\* sequence of nodes therefore reports the concatenation of its failing
\* elements' messages.
C10_AnyConcatenatesFailures ==
    /\ Returned("any") =>
            /\ IntoVec(Res) = FailingMsgs(Arg)
            /\ as_bool(Res) => \A i \in DOMAIN Arg : Arg[i] \in Outcomes => as_bool(Arg[i])
            /\ (\A i \in DOMAIN Arg : as_bool(Arg[i])) => Res = Success
            /\ (\E i \in DOMAIN Arg : Arg[i] \in Outcomes /\ ~as_bool(Arg[i])) =>
                    Res = Failure(FailingMsgs(Arg))
    /\ (pc = "returned" /\ call[1].op \in {"vec_has_name", "vec_has_vis",
                                           "vec_has_attrs", "vec_has_block"}) =>
            LET elems == Arg[1].items
                outs == [i \in DOMAIN elems |->
                            Item_has(FieldOf(call[1].op), elems[i], Arg[2])]
            IN  /\ IntoVec(Res) = FailingMsgs(outs)
                /\ as_bool(Res) <=> \A i \in DOMAIN outs : as_bool(outs[i])

C10_Witness ==
    /\ Returned("any")
    /\ Len(Arg) > Len(<<Success>>)
    /\ Arg[1] \in Outcomes /\ ~as_bool(Arg[1])
    /\ Arg[2] \in Outcomes /\ ~as_bool(Arg[2])
    /\ Arg[1].failures # Arg[2].failures
    /\ Res = Failure(Arg[1].failures \o Arg[2].failures)

====
